---- MODULE Spec2Model ----
(***************************************************************************)
(* Model of pkg/controller/controller.go: the Chart Manager controller.    *)
(* The informer delivers Added/Updated/Deleted events; addFunc, updateFunc *)
(* and deleteFunc each start one goroutine per event; the goroutine calls  *)
(* the helm executor, waits for the release to deploy and PUTs the status  *)
(* of the resource back to the API server.                                 *)
(***************************************************************************)
EXTENDS Integers, Sequences, FiniteSets, TLC

VARIABLES
    store,      \* API server: resource identity -> stored ChartManager document
    watchQ,     \* events the watch has produced and the informer has not yet handed over
    tasks,      \* handler goroutines ever started, in start order
    informer,   \* "idle" | "running" | "stopped": the goroutine of controller.Run(ctx.Done())
    ctxDone,    \* ctx.Done() is closed
    runPc,      \* position of Controller.Run: "manage" | "blocked" | "returned"
    runResult   \* what Controller.Run returned

vars == <<store, watchQ, tasks, informer, ctxDone, runPc, runResult>>

----------------------------------------------------------------------------
(* Bounds of the model *)

NumIds == 2          \* resource identities (name, namespace)
NumCharts == 2       \* distinct chart specifications
MaxTasks == 2        \* events produced by the watch, hence handler goroutines
MaxDeployAt == 4     \* latest tick interval at which a release becomes deployed
MaxSeqEvents == 3    \* events of a run in which handlers are invoked one after the other

(* Program constants *)

TickSeconds == 30        \* time.NewTicker(30 * time.Second)
TimeoutSeconds == 120    \* time.After(2 * time.Minute)
DeadlineTicks == TimeoutSeconds \div TickSeconds

Ids == 1..NumIds
Charts == 1..NumCharts
Never == -1              \* a release that never becomes deployed

ChartMgrStateUnknown == "Unknown"
ChartMgrStateDeployed == "Deployed"
ChartMgrStateFailed == "Failed"
States == {ChartMgrStateUnknown, ChartMgrStateDeployed, ChartMgrStateFailed}

TimeoutMsg == "Timed out waiting for release to deploy"
ApplyErrMsg == "create or update failed"
DeleteErrMsg == "delete failed"
CtxErr == "context canceled"

----------------------------------------------------------------------------
(* Data *)

\* crv1alpha1.ChartMgrStatus
ChartMgrStatus(state, release, message) ==
    [state |-> state, release |-> release, message |-> message]

EmptyStatus == ChartMgrStatus("", "", "")

\* The release name helm gives to the release of resource id; "" is the name
\* of an empty handle.
ReleaseName(id) == IF id = 1 THEN "rls-1" ELSE IF id = 2 THEN "rls-2" ELSE "rls-n"

\* A ChartManager document: identity, resourceVersion, desired state, status.
ChartManager(id, rv, chart, createOnly, status) ==
    [id |-> id, rv |-> rv, chart |-> chart, createOnly |-> createOnly, status |-> status]

\* A slot of the API server: the document and whether it exists.
Absent(rv) == [exists |-> FALSE, doc |-> ChartManager(0, rv, 0, FALSE, EmptyStatus)]

\* The desired-state fields of a document.
Desired(doc) == <<doc.chart, doc.createOnly>>

\* lmhelm.Release: the handle of one attempt.  deployAt is the tick interval
\* (counted from the call of the executor) from which the release reports
\* deployed, Never when it never does; base is the status it reports before.
Release(name, base, deployAt) == [name |-> name, base |-> base, deployAt |-> deployAt]

NoRelease == Release("", ChartMgrStateUnknown, Never)

\* rls.Deployed() asked when `elapsed` tick intervals have passed.
Deployed(rls, elapsed) == rls.deployAt # Never /\ elapsed >= rls.deployAt

\* rls.Status() asked when `elapsed` tick intervals have passed.
Status(rls, elapsed) ==
    IF Deployed(rls, elapsed) THEN ChartMgrStateDeployed ELSE rls.base

\* rls.Name()
Name(rls) == rls.name

\* lmhelm.CreateOnly(chartmgr)
CreateOnly(doc) == doc.createOnly

----------------------------------------------------------------------------
Init ==
    /\ store = [id \in Ids |-> Absent(0)]
    /\ watchQ = <<>>
    /\ tasks = <<>>
    /\ informer = "idle"
    /\ ctxDone = FALSE
    /\ runPc = "manage"
    /\ runResult = ""

----------------------------------------------------------------------------
(* The API server and the watch (external collaborators) *)

\* Events the watch has produced so far.
Produced == Len(tasks) + Len(watchQ)

\* An event of the watch.  The old object of an update is left out: updateFunc
\* only asserts its type (line 116).
Event(kind, obj) == [kind |-> kind, obj |-> obj]

\* Resource id is created in the API server: the watch produces Added.
CreateResource(id, chart, co) ==
    /\ ~store[id].exists
    /\ LET doc == ChartManager(id, store[id].doc.rv + 1, chart, co, EmptyStatus)
       IN /\ store' = [store EXCEPT ![id] = [exists |-> TRUE, doc |-> doc]]
          /\ watchQ' = Append(watchQ, Event("Added", doc))
    /\ UNCHANGED <<tasks, informer, ctxDone, runPc, runResult>>

\* A user creates resource id.
UserCreate(id, chart, co) ==
    /\ Produced < MaxTasks
    /\ CreateResource(id, chart, co)

\* A user rewrites resource id: the watch produces Updated.
UserUpdate(id, chart, co) ==
    /\ Produced < MaxTasks
    /\ store[id].exists
    /\ LET doc == [store[id].doc EXCEPT !.rv = @ + 1, !.chart = chart, !.createOnly = co]
       IN /\ store' = [store EXCEPT ![id] = [exists |-> TRUE, doc |-> doc]]
          /\ watchQ' = Append(watchQ, Event("Updated", doc))
    /\ UNCHANGED <<tasks, informer, ctxDone, runPc, runResult>>

\* Resource id is deleted from the API server: the watch produces Deleted.
DeleteResource(id) ==
    /\ store[id].exists
    /\ store' = [store EXCEPT ![id] = Absent(store[id].doc.rv)]
    /\ watchQ' = Append(watchQ, Event("Deleted", store[id].doc))
    /\ UNCHANGED <<tasks, informer, ctxDone, runPc, runResult>>

\* A user deletes resource id.
UserDelete(id) ==
    /\ Produced < MaxTasks
    /\ DeleteResource(id)

\* The replace operation of the API server, addressed by identity: the
\* document must exist and carry the stored resourceVersion.
StoreReplace(slot, doc) ==
    IF ~slot.exists THEN [err |-> "notfound", slot |-> slot]
    ELSE IF doc.rv # slot.doc.rv THEN [err |-> "conflict", slot |-> slot]
    ELSE [err |-> "", slot |-> [exists |-> TRUE, doc |-> [doc EXCEPT !.rv = @ + 1]]]

----------------------------------------------------------------------------
(* The executor (pkg/controller and pkg/lmhelm, outside this file) *)

\* What CreateOrUpdateChartMgr can return for a resource: an error with a
\* partial (possibly empty) handle, or a handle of a release in progress.
ApplyOutcomes(obj) ==
    { [err |-> ApplyErrMsg, rls |-> Release(n, sd[1], sd[2])] :
        n \in {"", ReleaseName(obj.id)},
        sd \in { <<ChartMgrStateUnknown, Never>>, <<ChartMgrStateFailed, Never>> } }
    \cup
    { [err |-> "", rls |-> Release(ReleaseName(obj.id), ChartMgrStateUnknown, d)] :
        d \in (0..MaxDeployAt) \cup {Never} }
    \cup
    { [err |-> "", rls |-> Release(ReleaseName(obj.id), ChartMgrStateFailed, Never)] }

\* What DeleteChartMgr can return.
DeleteOutcomes(obj) == {"", DeleteErrMsg}

----------------------------------------------------------------------------
(* Handler goroutines *)

NoPut == [state |-> "", release |-> "", message |-> "", result |-> "none", waited |-> FALSE]

\* The goroutine started for an event.
NewTask(handler, ev) ==
    [handler |-> handler, kind |-> ev.kind, obj |-> ev.obj, pc |-> "start",
     rls |-> NoRelease, err |-> "", waitErr |-> "",
     elapsed |-> 0, checks |-> 0,
     nApply |-> 0, nDelete |-> 0, nWait |-> 0, nPut |-> 0,
     put |-> NoPut, outcome |-> ""]

Tasks == DOMAIN tasks

\* The log line a handler ends on when nothing failed.
Completion(kind) ==
    IF kind = "Added" THEN "created" ELSE IF kind = "Updated" THEN "updated" ELSE "deleted"

\* cache.ResourceEventHandlerFuncs of manage: the handler of each event kind.
HandlerFor(kind) ==
    IF kind = "Added" THEN "addFunc"
    ELSE IF kind = "Updated" THEN "updateFunc"
    ELSE "deleteFunc"

\* addFunc, updateFunc, deleteFunc: `go func(obj) {...}(obj)` starts one
\* goroutine and returns.
Spawn(ev) == <<NewTask(HandlerFor(ev.kind), ev)>>

\* addFunc after CreateOrUpdateChartMgr returned `out` (lines 98-105).
AddFuncApplied(t, out) ==
    IF out.err # ""
    THEN [t EXCEPT !.nApply = @ + 1, !.rls = out.rls, !.err = out.err, !.pc = "applyFailed"]
    ELSE [t EXCEPT !.nApply = @ + 1, !.rls = out.rls, !.nWait = @ + 1, !.pc = "select"]

\* updateFunc without the CreateOnly test of line 126.
UpdateFuncAppliedNoCreateOnly(t, out) == AddFuncApplied(t, out)

\* updateFunc after CreateOrUpdateChartMgr returned `out` (lines 119-131).
UpdateFuncApplied(t, out) ==
    IF out.err # ""
    THEN [t EXCEPT !.nApply = @ + 1, !.rls = out.rls, !.err = out.err, !.pc = "applyFailed"]
    ELSE IF CreateOnly(t.obj)
    THEN [t EXCEPT !.nApply = @ + 1, !.rls = out.rls, !.pc = "done", !.outcome = "ignored"]
    ELSE [t EXCEPT !.nApply = @ + 1, !.rls = out.rls, !.nWait = @ + 1, !.pc = "select"]

\* deleteFunc writing a failure status when the delete failed.
DeleteFuncCalledWritesStatus(t, err) ==
    IF err # ""
    THEN [t EXCEPT !.nDelete = @ + 1, !.err = err, !.pc = "applyFailed"]
    ELSE [t EXCEPT !.nDelete = @ + 1, !.pc = "done", !.outcome = "deleted"]

\* deleteFunc after DeleteChartMgr returned err (lines 143-148).
DeleteFuncCalled(t, err) ==
    [t EXCEPT !.nDelete = @ + 1, !.err = err, !.pc = "done",
              !.outcome = IF err # "" THEN "failed" ELSE "deleted"]

\* The timer seen one tick too late.
TimeoutReadyLate(elapsed) ==
    IF elapsed <= DeadlineTicks THEN {FALSE}
    ELSE IF elapsed = DeadlineTicks + 1 THEN {FALSE, TRUE}
    ELSE {TRUE}

\* The timer due one tick too early.
TimeoutReadyEarly(elapsed) ==
    IF elapsed < DeadlineTicks - 1 THEN {FALSE} ELSE {TRUE}

\* The timer due one tick too early and racing with that tick.
TimeoutReadyRacy(elapsed) ==
    IF elapsed < DeadlineTicks - 1 THEN {FALSE}
    ELSE IF elapsed = DeadlineTicks - 1 THEN {FALSE, TRUE}
    ELSE {TRUE}

\* Whether `case <-timeout` can be taken at a wake after `elapsed` ticks: the
\* timer is due at the 4th tick, where it and the ticker fire together and
\* either may be seen first; one tick later it has fired.
TimeoutReady(elapsed) ==
    IF elapsed < DeadlineTicks THEN {FALSE}
    ELSE IF elapsed = DeadlineTicks THEN {FALSE, TRUE}
    ELSE {TRUE}

\* The select with the readiness check before the timeout case.
SelectedReadyFirst(t, timedOut) ==
    IF Deployed(t.rls, t.elapsed)
    THEN [t EXCEPT !.checks = @ + 1, !.pc = "waited"]
    ELSE IF timedOut
    THEN [t EXCEPT !.waitErr = TimeoutMsg, !.pc = "waited"]
    ELSE [t EXCEPT !.checks = @ + 1, !.pc = "tick"]

\* One pass of the select of waitForReleaseToDeploy (lines 194-202).
Selected(t, timedOut) ==
    IF timedOut
    THEN [t EXCEPT !.waitErr = TimeoutMsg, !.pc = "waited"]
    ELSE IF Deployed(t.rls, t.elapsed)
    THEN [t EXCEPT !.checks = @ + 1, !.pc = "waited"]
    ELSE [t EXCEPT !.checks = @ + 1, !.pc = "tick"]

\* updateStatus passing the status string on both outcomes of the wait.
StatusMessageNoErr(t) == Status(t.rls, t.elapsed)

\* The message updateStatus passes on (lines 154-160).
StatusMessage(t) ==
    IF t.waitErr # "" THEN t.waitErr ELSE Status(t.rls, t.elapsed)

\* A fresh document carrying only the identity and the new Status.
StatusCopyFresh(chartmgr, rls, elapsed, message) ==
    ChartManager(chartmgr.id, chartmgr.rv, 1, FALSE,
                 ChartMgrStatus(Status(rls, elapsed), Name(rls), message))

\* A copy re-read from the API server before the write: it carries the
\* resourceVersion now stored.
StatusCopyForce(chartmgr, rls, elapsed, message) ==
    [chartmgr EXCEPT !.rv = store[chartmgr.id].doc.rv,
                     !.status = ChartMgrStatus(Status(rls, elapsed), Name(rls), message)]

\* chartmgr.DeepCopy() with the new Status (lines 166-171).
StatusCopy(chartmgr, rls, elapsed, message) ==
    [chartmgr EXCEPT !.status = ChartMgrStatus(Status(rls, elapsed), Name(rls), message)]

\* c.put(chartmgr): the PUT addressed by the name and namespace of the body.
put(chartmgr) == StoreReplace(store[chartmgr.id], chartmgr)

\* updateChartMgrStatus setting the Status on the caller's object and sending
\* that object (no DeepCopy).
updateChartMgrStatusInPlace(h, message, outcome) ==
    LET t == tasks[h]
        copy == StatusCopy(t.obj, t.rls, t.elapsed, message)
        res == put(copy)
    IN /\ store' = [store EXCEPT ![copy.id] = res.slot]
       /\ tasks' = [tasks EXCEPT ![h] =
             [t EXCEPT !.nPut = @ + 1, !.pc = "done", !.outcome = outcome,
                       !.obj = copy,
                       !.put = [state |-> copy.status.state,
                                release |-> copy.status.release,
                                message |-> copy.status.message,
                                result |-> IF res.err = "" THEN "ok" ELSE res.err,
                                waited |-> t.pc = "waited"]]]

\* updateChartMgrStatus repeating the put for as long as it fails.
updateChartMgrStatusRetry(h, message, outcome) ==
    LET t == tasks[h]
        copy == StatusCopy(t.obj, t.rls, t.elapsed, message)
        res == put(copy)
    IN /\ store' = [store EXCEPT ![copy.id] = res.slot]
       /\ tasks' = [tasks EXCEPT ![h] =
             [t EXCEPT !.nPut = @ + 1,
                       !.pc = IF res.err = "" THEN "done" ELSE t.pc,
                       !.outcome = IF res.err = "" THEN outcome ELSE t.outcome,
                       !.put = [state |-> copy.status.state,
                                release |-> copy.status.release,
                                message |-> copy.status.message,
                                result |-> IF res.err = "" THEN "ok" ELSE res.err,
                                waited |-> t.pc = "waited"]]]

\* updateChartMgrStatus(chartmgr, rls, message) run by task h; the error of
\* put is logged and dropped.
updateChartMgrStatus(h, message, outcome) ==
    LET t == tasks[h]
        copy == StatusCopy(t.obj, t.rls, t.elapsed, message)
        res == put(copy)
    IN /\ store' = [store EXCEPT ![copy.id] = res.slot]
       /\ tasks' = [tasks EXCEPT ![h] =
             [t EXCEPT !.nPut = @ + 1, !.pc = "done", !.outcome = outcome,
                       !.put = [state |-> copy.status.state,
                                release |-> copy.status.release,
                                message |-> copy.status.message,
                                result |-> IF res.err = "" THEN "ok" ELSE res.err,
                                waited |-> t.pc = "waited"]]]

\* addFunc running its body in the informer goroutine (no `go`): it starts
\* only when every earlier handler has returned.
AddFuncApplyInline(h) ==
    /\ tasks[h].handler = "addFunc" /\ tasks[h].pc = "start"
    /\ \A g \in 1..(h - 1) : tasks[g].pc = "done"
    /\ \E out \in ApplyOutcomes(tasks[h].obj) :
          tasks' = [tasks EXCEPT ![h] = AddFuncApplied(tasks[h], out)]
    /\ UNCHANGED <<store, watchQ, informer, ctxDone, runPc, runResult>>

AddFuncApply(h) ==
    /\ tasks[h].handler = "addFunc" /\ tasks[h].pc = "start"
    /\ \E out \in ApplyOutcomes(tasks[h].obj) :
          tasks' = [tasks EXCEPT ![h] = AddFuncApplied(tasks[h], out)]
    /\ UNCHANGED <<store, watchQ, informer, ctxDone, runPc, runResult>>

UpdateFuncApply(h) ==
    /\ tasks[h].handler = "updateFunc" /\ tasks[h].pc = "start"
    /\ \E out \in ApplyOutcomes(tasks[h].obj) :
          tasks' = [tasks EXCEPT ![h] = UpdateFuncApplied(tasks[h], out)]
    /\ UNCHANGED <<store, watchQ, informer, ctxDone, runPc, runResult>>

DeleteFuncCall(h) ==
    /\ tasks[h].handler = "deleteFunc" /\ tasks[h].pc = "start"
    /\ \E err \in DeleteOutcomes(tasks[h].obj) :
          tasks' = [tasks EXCEPT ![h] = DeleteFuncCalled(tasks[h], err)]
    /\ UNCHANGED <<store, watchQ, informer, ctxDone, runPc, runResult>>

\* The executor error logged with log.Fatalf: the process exits, which ends
\* the informer and every other handler goroutine where it stands.
ApplyFailedStatusFatal(h) ==
    /\ tasks[h].pc = "applyFailed"
    /\ tasks' = [g \in Tasks |-> [tasks[g] EXCEPT !.pc = "done", !.outcome = "failed"]]
    /\ informer' = "stopped"
    /\ UNCHANGED <<store, watchQ, ctxDone, runPc, runResult>>

\* addFunc/updateFunc lines 100-102 / 121-123: the executor failed.
ApplyFailedStatus(h) ==
    /\ tasks[h].pc = "applyFailed"
    /\ updateChartMgrStatus(h, tasks[h].err, "failed")
    /\ UNCHANGED <<watchQ, informer, ctxDone, runPc, runResult>>

\* waitForReleaseToDeploy: the first pass of the loop, before any tick.
WaitSelect(h) ==
    /\ tasks[h].pc = "select"
    /\ \E timedOut \in TimeoutReady(tasks[h].elapsed) :
          tasks' = [tasks EXCEPT ![h] = Selected(tasks[h], timedOut)]
    /\ UNCHANGED <<store, watchQ, informer, ctxDone, runPc, runResult>>

\* A wait that also selects on ctx.Done(): the tick is taken only while the
\* context is live.
WaitTickUntilCancelled(h) ==
    /\ ~ctxDone
    /\ tasks[h].pc = "tick"
    /\ \E timedOut \in TimeoutReady(tasks[h].elapsed + 1) :
          tasks' = [tasks EXCEPT ![h] =
                       Selected([tasks[h] EXCEPT !.elapsed = @ + 1], timedOut)]
    /\ UNCHANGED <<store, watchQ, informer, ctxDone, runPc, runResult>>

\* waitForReleaseToDeploy: `<-c`, the post statement of the loop, and the
\* select the goroutine runs when the tick wakes it.
WaitTick(h) ==
    /\ tasks[h].pc = "tick"
    /\ \E timedOut \in TimeoutReady(tasks[h].elapsed + 1) :
          tasks' = [tasks EXCEPT ![h] =
                       Selected([tasks[h] EXCEPT !.elapsed = @ + 1], timedOut)]
    /\ UNCHANGED <<store, watchQ, informer, ctxDone, runPc, runResult>>

\* updateStatus after the wait (lines 154-161) and the return to the handler
\* (lines 106-110 / 132-135).
UpdateStatusWrite(h) ==
    /\ tasks[h].pc = "waited"
    /\ updateChartMgrStatus(h, StatusMessage(tasks[h]),
          IF tasks[h].waitErr # "" THEN "failed" ELSE Completion(tasks[h].kind))
    /\ UNCHANGED <<watchQ, informer, ctxDone, runPc, runResult>>

\* One step of handler goroutine h.
HandlerStep(h) ==
    \/ AddFuncApply(h)
    \/ UpdateFuncApply(h)
    \/ DeleteFuncCall(h)
    \/ ApplyFailedStatus(h)
    \/ WaitSelect(h)
    \/ WaitTick(h)
    \/ UpdateStatusWrite(h)

----------------------------------------------------------------------------
(* The dispatcher and the lifecycle *)

\* An informer whose handler call returns only when the handler has finished.
DispatchBlocking ==
    /\ informer = "running"
    /\ watchQ # <<>>
    /\ \A g \in Tasks : tasks[g].pc = "done"
    /\ tasks' = tasks \o Spawn(Head(watchQ))
    /\ watchQ' = Tail(watchQ)
    /\ UNCHANGED <<store, informer, ctxDone, runPc, runResult>>

\* An informer that goes on handing events over after it was stopped.
DispatchAlways ==
    /\ informer # "idle"
    /\ watchQ # <<>>
    /\ tasks' = tasks \o Spawn(Head(watchQ))
    /\ watchQ' = Tail(watchQ)
    /\ UNCHANGED <<store, informer, ctxDone, runPc, runResult>>

\* The informer hands the oldest event to its handler function.
Dispatch ==
    /\ informer = "running"
    /\ watchQ # <<>>
    /\ tasks' = tasks \o Spawn(Head(watchQ))
    /\ watchQ' = Tail(watchQ)
    /\ UNCHANGED <<store, informer, ctxDone, runPc, runResult>>

\* Run: c.manage(ctx) starts the informer in the background (lines 63, 91).
RunManage ==
    /\ runPc = "manage"
    /\ informer' = "running"
    /\ runPc' = "blocked"
    /\ UNCHANGED <<store, watchQ, tasks, ctxDone, runResult>>

\* The owner of the context cancels it.
Cancel ==
    /\ ~ctxDone
    /\ ctxDone' = TRUE
    /\ UNCHANGED <<store, watchQ, tasks, informer, runPc, runResult>>

\* controller.Run(ctx.Done()) sees the stop channel closed.
InformerStop ==
    /\ informer = "running"
    /\ ctxDone
    /\ informer' = "stopped"
    /\ UNCHANGED <<store, watchQ, tasks, ctxDone, runPc, runResult>>

\* Run returning ctx.Err() without waiting on ctx.Done().
RunReturnEarly ==
    /\ runPc = "blocked"
    /\ runPc' = "returned"
    /\ runResult' = (IF ctxDone THEN CtxErr ELSE "")
    /\ UNCHANGED <<store, watchQ, tasks, informer, ctxDone>>

\* Run: <-ctx.Done() returns; return ctx.Err() (lines 69-71).
RunReturn ==
    /\ runPc = "blocked"
    /\ ctxDone
    /\ runPc' = "returned"
    /\ runResult' = CtxErr
    /\ UNCHANGED <<store, watchQ, tasks, informer, ctxDone>>

Next ==
    \/ \E id \in Ids, chart \in Charts, co \in BOOLEAN : UserCreate(id, chart, co)
    \/ \E id \in Ids, chart \in Charts, co \in BOOLEAN : UserUpdate(id, chart, co)
    \/ \E id \in Ids : UserDelete(id)
    \/ Dispatch
    \/ \E h \in Tasks : AddFuncApply(h)
    \/ \E h \in Tasks : UpdateFuncApply(h)
    \/ \E h \in Tasks : DeleteFuncCall(h)
    \/ \E h \in Tasks : ApplyFailedStatus(h)
    \/ \E h \in Tasks : WaitSelect(h)
    \/ \E h \in Tasks : WaitTick(h)
    \/ \E h \in Tasks : UpdateStatusWrite(h)
    \/ RunManage
    \/ Cancel
    \/ InformerStop
    \/ RunReturn

Spec == Init /\ [][Next]_vars

\* Every handler goroutine that can take a step eventually takes one: the Go
\* scheduler runs it, the executor and store calls return, the ticker ticks.
Fairness == \A h \in 1..MaxTasks : WF_vars(h \in Tasks /\ HandlerStep(h))

FairSpec == Spec /\ Fairness

----------------------------------------------------------------------------
(* Handlers invoked in sequence: the next event is produced only when every
   handler started so far has returned. *)

Quiescent == watchQ = <<>> /\ \A h \in Tasks : tasks[h].pc = "done"

SeqCreate(id, chart, co) ==
    /\ Quiescent
    /\ Produced < MaxSeqEvents
    /\ CreateResource(id, chart, co)

SeqDelete(id) ==
    /\ Quiescent
    /\ Produced < MaxSeqEvents
    /\ DeleteResource(id)

SeqNext ==
    \/ \E id \in Ids, chart \in Charts, co \in BOOLEAN : SeqCreate(id, chart, co)
    \/ \E id \in Ids : SeqDelete(id)
    \/ Dispatch
    \/ \E h \in Tasks : AddFuncApply(h)
    \/ \E h \in Tasks : DeleteFuncCall(h)
    \/ \E h \in Tasks : ApplyFailedStatus(h)
    \/ \E h \in Tasks : WaitSelect(h)
    \/ \E h \in Tasks : WaitTick(h)
    \/ \E h \in Tasks : UpdateStatusWrite(h)
    \/ RunManage

SeqSpec == Init /\ [][SeqNext]_vars

----------------------------------------------------------------------------
(* Properties *)

\* The handlers of the post-apply sequence: addFunc whatever the createOnly
\* flag, updateFunc when the flag is unset.
PostApply(t) ==
    \/ t.handler = "addFunc"
    \/ t.handler = "updateFunc" /\ ~CreateOnly(t.obj)

\* waitForReleaseToDeploy has returned in task t.
WaitReturned(t) == t.nWait = 1 /\ t.pc \in {"waited", "done"}

\* C1 (as stated): an updateFunc handler of a createOnly resource calls
\* create-or-update exactly once and never issues a store update, whether the
\* call succeeded or failed.
C1_Original ==
    \A h \in Tasks :
        LET t == tasks[h] IN
        (t.handler = "updateFunc" /\ CreateOnly(t.obj))
            => /\ t.nPut = 0
               /\ (t.pc = "done" => t.nApply = 1)

\* C1 (amended): an updateFunc handler of a createOnly resource calls
\* create-or-update exactly once and never runs the wait; when the call
\* succeeded it issues no store update and ends ignoring the update; when the
\* call failed it issues the one failure status write.
C1_CreateOnlySuppression ==
    \A h \in Tasks :
        LET t == tasks[h] IN
        (t.handler = "updateFunc" /\ CreateOnly(t.obj))
            => /\ t.nApply <= 1 /\ t.nWait = 0
               /\ (t.err = "" => t.nPut = 0)
               /\ (t.pc = "done" =>
                     /\ t.nApply = 1
                     /\ (t.err = "" => t.outcome = "ignored" /\ t.put = NoPut)
                     /\ (t.err # "" => t.nPut = 1 /\ t.put.message = t.err))

C1_Witness ==
    \E h \in Tasks :
        /\ tasks[h].handler = "updateFunc" /\ CreateOnly(tasks[h].obj)
        /\ tasks[h].pc = "done" /\ tasks[h].err = ""
        /\ tasks[h].nApply = 1 /\ tasks[h].nPut = 0

\* C2: a deleteFunc handler calls the executor's delete exactly once and, on
\* success and on error alike, never runs the wait, never calls create-or-update
\* and never issues a store update.
C2_DeleteSkipsStatus ==
    \A h \in Tasks :
        LET t == tasks[h] IN
        t.handler = "deleteFunc"
            => /\ t.nDelete <= 1 /\ t.nApply = 0
               /\ t.nWait = 0 /\ t.nPut = 0 /\ t.put = NoPut
               /\ t.pc \in {"start", "done"}
               /\ (t.pc = "done" => t.nDelete = 1)

C2_Witness ==
    \E h \in Tasks :
        /\ tasks[h].handler = "deleteFunc" /\ tasks[h].pc = "done"
        /\ tasks[h].err = DeleteErrMsg /\ tasks[h].nDelete = 1
        /\ ~store[tasks[h].obj.id].exists

\* C3: in addFunc (whatever createOnly) and in updateFunc with createOnly
\* unset, after a successful create-or-update the handler runs the wait once,
\* issues no status write before the wait has returned and exactly one after
\* it, on both outcomes; the message is the timeout text when the wait failed
\* and the handle's status string when it succeeded.
C3_PostApplySequence ==
    \A h \in Tasks :
        LET t == tasks[h] IN
        (PostApply(t) /\ t.nApply = 1 /\ t.err = "")
            => /\ t.nWait = 1
               /\ (t.pc # "done" => t.nPut = 0)
               /\ (t.pc = "done" =>
                     /\ t.nPut = 1 /\ t.put.waited
                     /\ t.put.release = Name(t.rls)
                     /\ (t.waitErr # "" => t.put.message = TimeoutMsg)
                     /\ (t.waitErr = "" => t.put.message = Status(t.rls, t.elapsed)))

C3_Witness ==
    \E a, b \in Tasks :
        /\ tasks[a].handler = "addFunc" /\ CreateOnly(tasks[a].obj)
        /\ tasks[a].pc = "done" /\ tasks[a].waitErr = ""
        /\ tasks[a].put.message = ChartMgrStateDeployed
        /\ tasks[b].handler = "updateFunc" /\ tasks[b].pc = "done"
        /\ tasks[b].waitErr = TimeoutMsg /\ tasks[b].put.message = TimeoutMsg

\* C4 (as stated): when create-or-update fails in addFunc or updateFunc the
\* handler issues exactly one status write, of state Failed, with the error
\* text as message and the name of the returned handle as release name, and
\* ends without running the wait.
C4_Original ==
    \A h \in Tasks :
        LET t == tasks[h] IN
        (t.handler \in {"addFunc", "updateFunc"} /\ t.err # "" /\ t.pc = "done")
            => /\ t.nPut = 1 /\ t.nWait = 0
               /\ t.put.state = ChartMgrStateFailed
               /\ t.put.message = t.err
               /\ t.put.release = Name(t.rls)

\* C5: for a release that is never deployed the wait never returns success;
\* it returns the timeout no earlier than the deadline (4 ticks of 30s) and no
\* later than one tick after it, after at most 5 readiness checks.
C5_ConvergenceDeadline ==
    \A h \in Tasks :
        LET t == tasks[h] IN
        (t.nWait = 1 /\ t.rls.deployAt = Never)
            => /\ t.checks <= DeadlineTicks + 1
               /\ t.elapsed * TickSeconds <= TimeoutSeconds + TickSeconds
               /\ (WaitReturned(t) =>
                     /\ t.waitErr = TimeoutMsg
                     /\ t.elapsed * TickSeconds >= TimeoutSeconds
                     /\ t.checks = t.elapsed)

C5_Witness ==
    \E h \in Tasks :
        /\ tasks[h].rls.deployAt = Never /\ WaitReturned(tasks[h])
        /\ tasks[h].waitErr = TimeoutMsg
        /\ tasks[h].elapsed = DeadlineTicks + 1 /\ tasks[h].checks = DeadlineTicks + 1

\* C6 (as stated): for every N >= 0, for a release that is not deployed at the
\* first N checks and deployed afterwards, the wait returns success at the
\* check made N ticks after its start (for N = 0 at the immediate first check).
C6_Original ==
    \A h \in Tasks :
        LET t == tasks[h] IN
        (WaitReturned(t) /\ t.rls.deployAt # Never)
            => /\ t.waitErr = ""
               /\ t.elapsed = t.rls.deployAt
               /\ t.checks = t.rls.deployAt + 1

\* C6 (amended): for every N with 0 <= N < 4 (the release is deployed before
\* the 2-minute deadline) the wait returns success at the check made N ticks
\* after its start, for N = 0 at the immediate first check; for any N a
\* success is returned at that check and never before it, and while the wait
\* is blocked on the ticker fewer than N ticks have passed.
C6_ConvergenceSuccess ==
    \A h \in Tasks :
        LET t == tasks[h]
            N == t.rls.deployAt
        IN (t.nWait = 1 /\ N # Never)
            => /\ (t.pc = "tick" => t.elapsed < N)
               /\ (WaitReturned(t) /\ N < DeadlineTicks => t.waitErr = "")
               /\ (WaitReturned(t) /\ t.waitErr = "" =>
                     t.elapsed = N /\ t.checks = N + 1)
               /\ (WaitReturned(t) /\ t.waitErr # "" =>
                     N >= DeadlineTicks /\ t.elapsed >= DeadlineTicks)

C6_Witness ==
    \E h \in Tasks :
        /\ WaitReturned(tasks[h]) /\ tasks[h].waitErr = ""
        /\ tasks[h].rls.deployAt = DeadlineTicks - 1
        /\ tasks[h].elapsed = DeadlineTicks - 1 /\ tasks[h].checks = DeadlineTicks

\* C7 (as stated): a status write carrying the state Deployed is issued only
\* by a handler whose wait returned success; the write after a timeout or an
\* executor error never carries Deployed.
C7_Original ==
    \A h \in Tasks :
        LET t == tasks[h] IN
        (t.nPut = 1 /\ t.put.state = ChartMgrStateDeployed)
            => t.nWait = 1 /\ t.waitErr = "" /\ t.err = ""

\* C8: every event the informer hands over starts exactly one handler
\* goroutine, of the handler matching the event kind and on the event's
\* object, tasks start in no other way, and the hand-over is possible whatever
\* the earlier handlers are doing.
C8_DispatchOnce ==
    /\ [][ /\ (Len(watchQ') < Len(watchQ) =>
                /\ Len(tasks') = Len(tasks) + 1
                /\ SubSeq(tasks', 1, Len(tasks)) = tasks
                /\ tasks'[Len(tasks')].kind = Head(watchQ).kind
                /\ tasks'[Len(tasks')].obj = Head(watchQ).obj
                /\ tasks'[Len(tasks')].pc = "start"
                /\ tasks'[Len(tasks')].handler =
                      (CASE Head(watchQ).kind = "Added" -> "addFunc"
                         [] Head(watchQ).kind = "Updated" -> "updateFunc"
                         [] Head(watchQ).kind = "Deleted" -> "deleteFunc"))
           /\ (Len(tasks') # Len(tasks) => watchQ' = Tail(watchQ))
         ]_vars
    /\ []((informer = "running" /\ watchQ # <<>>) => ENABLED Dispatch)

C8_Witness ==
    \E a, b \in Tasks :
        /\ a < b
        /\ tasks[a].pc = "tick" /\ tasks[a].elapsed >= 1
        /\ tasks[b].pc = "start" /\ tasks[b].handler = "deleteFunc"
        /\ tasks[a].handler = "addFunc"

\* C9: a handler that has not finished can always take its next step while a
\* handler of another resource identity is inside the wait.
C9_DispatchIsolation ==
    \A a, b \in Tasks :
        (/\ a # b
         /\ tasks[a].obj.id # tasks[b].obj.id
         /\ tasks[b].pc \in {"select", "tick"}
         /\ tasks[a].pc # "done")
            => ENABLED HandlerStep(a)

C9_Witness ==
    \E a, b \in Tasks :
        /\ a < b
        /\ tasks[a].obj.id # tasks[b].obj.id
        /\ tasks[a].pc = "tick"
        /\ tasks[b].pc = "done" /\ tasks[b].nPut = 1 /\ tasks[b].put.result = "ok"
        /\ tasks[b].put.waited

C11_CopyOnWrite ==
    [][ \A h \in Tasks : tasks'[h].obj = tasks[h].obj ]_vars

C11_Witness ==
    \E a, b \in Tasks :
        /\ tasks[a].nPut = 1 /\ tasks[a].put.result = "ok"
        /\ tasks[a].obj.status = EmptyStatus
        /\ store[tasks[a].obj.id].exists
        /\ store[tasks[a].obj.id].doc.status.message = tasks[a].put.message
        /\ store[tasks[a].obj.id].doc.status # tasks[a].obj.status
        /\ tasks[b].nPut = 1 /\ tasks[b].put.result # "ok"
        /\ tasks[b].obj.status = EmptyStatus

\* A failure has happened inside task t: an executor error, a timeout of
\* the wait, or a refused store update.
Failed(t) ==
    \/ t.err # ""
    \/ t.waitErr # ""
    \/ t.put.result \in {"conflict", "notfound"}

\* The log line task t ends on, from its own executor and wait results.
OwnOutcome(t) ==
    IF t.handler = "deleteFunc" THEN (IF t.err # "" THEN "failed" ELSE "deleted")
    ELSE IF t.err # "" THEN "failed"
    ELSE IF t.handler = "updateFunc" /\ CreateOnly(t.obj) THEN "ignored"
    ELSE IF t.waitErr # "" THEN "failed"
    ELSE Completion(t.kind)

\* C12: a failure inside one handler stays inside it: every step changes at
\* most one handler goroutine; while some handler has failed, every other
\* unfinished handler can still take its next step and the informer can still
\* hand over the next event; and every handler ends on the outcome its own
\* executor and wait results give, whatever the other handlers did.
C12_ErrorContainment ==
    /\ [][ \A g \in Tasks :
              tasks'[g] # tasks[g] => \A k \in Tasks \ {g} : tasks'[k] = tasks[k] ]_vars
    /\ [](\A f, g \in Tasks :
              (f # g /\ Failed(tasks[f]) /\ tasks[g].pc # "done")
                  => ENABLED HandlerStep(g))
    /\ []((\E f \in Tasks : Failed(tasks[f])) /\ informer = "running" /\ watchQ # <<>>
              => ENABLED Dispatch)
    /\ [](\A g \in Tasks : tasks[g].pc = "done" => tasks[g].outcome = OwnOutcome(tasks[g]))

C12_Witness ==
    \E f, g \in Tasks :
        /\ f < g
        /\ tasks[f].pc = "done" /\ tasks[f].err = ApplyErrMsg /\ tasks[f].nPut = 1
        /\ tasks[g].handler = "addFunc" /\ tasks[g].pc = "done"
        /\ tasks[g].outcome = "created" /\ tasks[g].put.result = "ok"

\* C13: Run starts the informer in the background in one step that waits for
\* nothing, then stays blocked while the context is not cancelled; once it is
\* cancelled Run can return without waiting for the informer or the handlers,
\* and what it returns is the context's error.
C13_Lifecycle ==
    /\ [](runPc = "manage" => informer = "idle" /\ ENABLED RunManage)
    /\ [](runPc # "manage" => informer # "idle")
    /\ [](runPc # "returned" => runResult = "")
    /\ [](runPc = "returned" => ctxDone /\ runResult = CtxErr)
    /\ []((runPc = "blocked" /\ ctxDone) => ENABLED RunReturn)
    /\ [][ (runPc = "blocked" /\ ~ctxDone) => runPc' = "blocked" ]_vars
    /\ [][ runPc = "manage" /\ runPc' # "manage"
             => runPc' = "blocked" /\ informer' = "running" /\ tasks' = tasks ]_vars

C13_Witness ==
    /\ runPc = "returned" /\ runResult = CtxErr
    /\ informer = "running"
    /\ \E h \in Tasks : tasks[h].pc = "tick"

\* The status a handler issued.
Issued(t) == ChartMgrStatus(t.put.state, t.put.release, t.put.message)

\* Tasks a and b are two runs of addFunc for one resource identity, both
\* finished, to which the executor returned the same result and handle.
SameRun(a, b) ==
    /\ a < b
    /\ tasks[a].handler = "addFunc" /\ tasks[b].handler = "addFunc"
    /\ tasks[a].obj.id = tasks[b].obj.id
    /\ tasks[a].pc = "done" /\ tasks[b].pc = "done"
    /\ tasks[a].rls = tasks[b].rls /\ tasks[a].err = tasks[b].err

Writes(h) == tasks[h].nPut = 0 /\ tasks'[h].nPut = 1

\* Tasks a and b are addFunc/updateFunc runs for one resource identity, a on
\* the older snapshot of the resource.
OlderSnapshot(a, b) ==
    /\ tasks[a].handler \in {"addFunc", "updateFunc"}
    /\ tasks[b].handler \in {"addFunc", "updateFunc"}
    /\ tasks[a].obj.id = tasks[b].obj.id
    /\ tasks[a].obj.rv < tasks[b].obj.rv

C16_Original ==
    \A h \in Tasks :
        LET t == tasks[h] IN
        (WaitReturned(t) /\ Deployed(t.rls, t.elapsed)) => t.waitErr = ""

\* C16 (amended): the deadline takes precedence over readiness at each wake.
\* A wake that finds the timer fired returns the timeout without making a
\* readiness check, whether or not the release is deployed; from the 4th tick
\* on the timeout return is possible at every wake and after the 4th tick it
\* is the only one. Success is returned only by a wake that made the check and
\* found the release deployed, and a release deployed before the deadline
\* never yields a timeout.
C16_DeadlinePrecedence ==
    /\ [][ \A h \in Tasks :
             (tasks[h].pc \in {"select", "tick"} /\ tasks'[h].pc = "waited")
               => LET t == tasks'[h] IN
                  /\ (t.waitErr # "" =>
                        /\ t.waitErr = TimeoutMsg
                        /\ t.elapsed >= DeadlineTicks
                        /\ t.checks = tasks[h].checks)
                  /\ (t.waitErr = "" =>
                        /\ Deployed(t.rls, t.elapsed)
                        /\ t.elapsed <= DeadlineTicks
                        /\ t.checks = tasks[h].checks + 1) ]_vars
    /\ [](\A h \in Tasks :
            (tasks[h].pc = "tick" /\ tasks[h].elapsed + 1 >= DeadlineTicks)
              => ENABLED (WaitTick(h) /\ tasks'[h].waitErr = TimeoutMsg))
    /\ [](\A h \in Tasks :
            (WaitReturned(tasks[h]) /\ Deployed(tasks[h].rls, tasks[h].elapsed)
               /\ tasks[h].elapsed < DeadlineTicks)
              => tasks[h].waitErr = "")

C16_Witness ==
    \E h \in Tasks :
        /\ WaitReturned(tasks[h])
        /\ Deployed(tasks[h].rls, tasks[h].elapsed)
        /\ tasks[h].rls.deployAt = DeadlineTicks
        /\ tasks[h].elapsed = DeadlineTicks
        /\ tasks[h].waitErr = TimeoutMsg
        /\ tasks[h].checks = DeadlineTicks

\* The executor and store calls task t has made match the one pass of its
\* handler up to its position.
OnePass(t) ==
    /\ t.nApply <= 1 /\ t.nDelete <= 1 /\ t.nWait <= 1 /\ t.nPut <= 1
    /\ t.nApply = (IF t.handler # "deleteFunc" /\ t.pc # "start" THEN 1 ELSE 0)
    /\ t.nDelete = (IF t.handler = "deleteFunc" /\ t.pc # "start" THEN 1 ELSE 0)
    /\ (t.nPut = 1 => t.pc = "done")
    /\ (t.err # "" => t.nWait = 0)

\* C17: every event starts one handler, which makes exactly one
\* create-or-update call (Added, Updated) or one delete call (Deleted) and at
\* most one store update; a handler that has ended, whatever its outcome
\* (executor error, timeout, refused store update), takes no further step, and
\* the dispatcher starts no second handler for its event.
C17_NoRetry ==
    /\ [](\A h \in Tasks : OnePass(tasks[h]))
    /\ [][ \A h \in Tasks :
             tasks[h].pc = "done"
               => tasks'[h] = tasks[h] /\ ~ENABLED HandlerStep(h) ]_vars
    /\ [][ Len(tasks') > Len(tasks)
             => /\ Len(tasks') = Len(tasks) + 1
                /\ watchQ # <<>> /\ watchQ' = Tail(watchQ)
                /\ tasks'[Len(tasks')].obj = Head(watchQ).obj ]_vars

C17_Witness ==
    \E a, b \in Tasks :
        /\ a # b
        /\ tasks[a].pc = "done" /\ tasks[a].put.result = "conflict"
        /\ tasks[a].nApply = 1 /\ tasks[a].nPut = 1
        /\ tasks[b].pc = "done" /\ tasks[b].waitErr = TimeoutMsg
        /\ tasks[b].nApply = 1 /\ tasks[b].nWait = 1 /\ tasks[b].nPut = 1
        /\ watchQ = <<>>

\* C18 (as stated): a handler whose status write failed (conflict or missing
\* object) does not reach its "Created"/"Updated" completion.
C18_Original ==
    \A h \in Tasks :
        tasks[h].put.result \in {"conflict", "notfound"}
            => tasks[h].outcome \notin {"created", "updated"}

\* C19: every handler goroutine that was started reaches its end, whatever
\* the release does (time and again all handlers started so far have ended,
\* and an ended handler stays ended); until then it always has a step to take, also after the
\* context is cancelled, the informer has stopped and Run has returned; and a
\* handler that got past create-or-update ends with its wait returned and its
\* one status write issued.
C19_HandlersTerminate ==
    /\ []<>(\A h \in Tasks : tasks[h].pc = "done")
    /\ [](\A h \in Tasks : tasks[h].pc # "done" => ENABLED HandlerStep(h))
    /\ [](\A h \in Tasks :
            (tasks[h].pc = "done" /\ tasks[h].nWait = 1)
              => /\ tasks[h].nPut = 1 /\ tasks[h].put.waited
                 /\ (tasks[h].waitErr = "" => Deployed(tasks[h].rls, tasks[h].elapsed))
                 /\ (tasks[h].waitErr # "" => tasks[h].elapsed >= DeadlineTicks))
    /\ [][ \A h \in Tasks : tasks[h].pc = "done" => tasks'[h].pc = "done" ]_vars

C19_Witness ==
    /\ ctxDone /\ informer = "stopped" /\ runPc = "returned"
    /\ \E h, g \in Tasks :
          /\ tasks[h].pc = "tick" /\ tasks[h].elapsed >= 1
          /\ tasks[g].pc = "waited"

\* C20 (as stated): once the context is cancelled no handler task is started,
\* so the sequence of tasks ever started does not grow after cancellation.
C20_Original == [][ ctxDone => Len(tasks') = Len(tasks) ]_vars

\* C20 (amended): the informer stops only after the context was cancelled and
\* stays stopped; once it has stopped no handler task is started and the
\* events still pending are never handed over. Between the cancellation and
\* the informer's stop, pending events can still start handlers.
C20_NoIntakeAfterStop ==
    /\ [](informer = "stopped" => ctxDone)
    /\ [][ informer = "stopped"
             => /\ informer' = "stopped"
                /\ Len(tasks') = Len(tasks)
                /\ SubSeq(watchQ', 1, Len(watchQ)) = watchQ ]_vars
    /\ [](informer = "stopped" => ~ENABLED Dispatch)
    /\ []((ctxDone /\ informer = "running" /\ watchQ # <<>>) => ENABLED Dispatch)

C20_Witness ==
    /\ ctxDone /\ informer = "stopped"
    /\ watchQ # <<>>
    /\ Len(tasks) = 1 /\ tasks[1].pc = "done"

====
